---- MODULE Spec2Model ----
\* Model of the detection pipeline of src/hooks/useVisionEngine.ts:
\* the range merger processDetections and the useVisionEngine hook
\* (processVideo, the worker message handler, startCalibration,
\* startVideoProcessing and its frame loop, and the unmount cleanup).
\*
\* Time is counted in quarter seconds: a timestamp t stands for t * 0.25 s.
\* Every value of the model is then a dyadic rational, on which the
\* floating-point subtraction and comparison of the code are exact.
EXTENDS Integers, Sequences, FiniteSets, TLC

\* ------------------------------------------------------------------ bounds
MaxRuns == 2        \* processVideo calls in one behaviour
Duration == 1       \* video.duration, in quarter seconds
MaxFrames == 30     \* frame callbacks one loop closure may run
MaxInFlight == 1    \* PROCESS_FRAME requests a worker holds unanswered
MaxRaw == 1         \* positive results the worker reports in one run
MaxLen == 5         \* length of the timestamp sequences given to the merger
MaxTime == 7        \* largest timestamp given to the merger
MaxPermLen == 3     \* length of the sequences merged again in another order

\* ------------------------------------------------------- program constants
TOLERANCE == 2          \* const TOLERANCE = 0.5 (seconds), in quarter seconds
CONFIDENCE == 1         \* confidence: 1.0
PROGRESS_EVERY == 30    \* frameCount % 30 === 0

Runs == 1..MaxRuns
Times == 0..MaxTime
MediaTimes == 0..Duration

VARIABLES
    \* useState<VisionState>
    status, progress, isProcessing, detections,
    \* refs
    abortControllerRef,   \* run whose AbortController the ref holds, 0 = null
    workerRef,            \* run whose Worker the ref holds, 0 = null
    rawDetectionsRef,     \* rawDetectionsRef.current, in arrival order
    \* per run (one closure of processVideo each)
    aborted,              \* signal.aborted
    workers,              \* the run's Worker: alive (created, not terminated)
                          \* and the requests posted to it, unanswered
    imageLoading,         \* runs whose startCalibration awaits the reference image
    frameCount,           \* let frameCount of the processing loop
    \* the shared <video> element and its frame-callback list
    video, frameCallbacks, firing,
    mounted,              \* the component is mounted
    \* history: who produced what
    rawOrigin,            \* run of the worker that produced each raw detection
    published,            \* run that wrote detections, and the origins used
    discarded,            \* runs superseded with raw detections in the buffer
    runLog,               \* what has happened in the latest run
    last,                 \* the last step taken: [kind, run]
    \* the merger, applied on its own
    mPc, mIn, mOut, mRe,
    mArg,                 \* the caller's array after the call
    mPerm, mPermOut       \* a reordering of mIn, and its ranges

orchVars == <<status, progress, isProcessing, detections, abortControllerRef,
              workerRef, rawDetectionsRef, aborted, workers,
              imageLoading, frameCount, video, frameCallbacks, firing, mounted,
              rawOrigin, published, discarded, runLog, last>>
mergeVars == <<mPc, mIn, mOut, mRe, mArg, mPerm, mPermOut>>
vars == <<orchVars, mergeVars>>

\* ------------------------------------------------------------ range merger
\* [...timestamps].sort((a, b) => a - b): insertion into a sorted prefix
RECURSIVE InsertSorted(_, _)
InsertSorted(x, s) ==
    IF s = <<>> THEN <<x>>
    ELSE IF x - Head(s) < 0 THEN <<x>> \o s
    ELSE <<Head(s)>> \o InsertSorted(x, Tail(s))

RECURSIVE SortAscending(_)
SortAscending_unsorted(s) == s
SortAscending(s) ==
    IF s = <<>> THEN <<>>
    ELSE InsertSorted(s[Len(s)], SortAscending(SubSeq(s, 1, Len(s) - 1)))

\* { start, end: prev, confidence: 1.0 }
DetectionRange(start, end) == [start |-> start, end |-> end, confidence |-> CONFIDENCE]

\* curr - prev > TOLERANCE
GapDetected_inclusive(prev, curr) == curr - prev >= TOLERANCE
GapDetected_doubled(prev, curr) == curr - prev > 2 * TOLERANCE
GapDetected(prev, curr) == curr - prev > TOLERANCE

\* ranges.push({ start, end: prev, confidence: 1.0 }) after the loop
CloseFinalRange_dropped(ranges, start, prev) == ranges
CloseFinalRange(ranges, start, prev) == Append(ranges, DetectionRange(start, prev))

\* for (let i = 1; i < sorted.length; i++) { ... } and the final push;
\* i is the 1-based index of curr
RECURSIVE ScanRanges(_, _, _, _, _)
ScanRanges(sorted, i, start, prev, ranges) ==
    IF i > Len(sorted) THEN CloseFinalRange(ranges, start, prev)
    ELSE LET curr == sorted[i] IN
         IF GapDetected(prev, curr)
         THEN ScanRanges(sorted, i + 1, curr, curr,
                         Append(ranges, DetectionRange(start, prev)))
         ELSE ScanRanges(sorted, i + 1, start, curr, ranges)

\* What the call leaves in the caller's array: [...timestamps] copies it and
\* sort() reorders the copy, so the argument keeps its elements and order
ArgumentAfter_sortedInPlace(timestamps) == SortAscending(timestamps)
ArgumentAfter(timestamps) == timestamps

processDetections(timestamps) ==
    IF Len(timestamps) = 0 THEN <<>>
    ELSE LET sorted == SortAscending(timestamps)
         IN  ScanRanges(sorted, 2, sorted[1], sorted[1], <<>>)

\* ------------------------------------------------------------ orchestrator
NoRun == 0

\* setState on an unmounted component is discarded by React
SetState(old, new) == IF mounted THEN new ELSE old

\* let frameCount of an aborted run is never read again (its loop returns at
\* signal.aborted before the increment), so the model forgets its value
Forget(fc, c) == IF c = NoRun THEN fc ELSE [fc EXCEPT ![c] = 0]

\* abortControllerRef.current.abort(), guarded by the null check
Abort_noop(ab, c) == ab
Abort(ab, c) == IF c = NoRun THEN ab ELSE [ab EXCEPT ![c] = TRUE]

\* worker.terminate(): the worker stops and its queued messages are discarded
TerminateWorker_noop(ws, w) == ws
TerminateWorker(ws, w) ==
    IF w = NoRun THEN ws ELSE [ws EXCEPT ![w] = [alive |-> FALSE, pending |-> {}]]

Request(type, t) == [type |-> type, timestamp |-> t]
FramesOf(w) == {q \in w.pending : q.type = "PROCESS_FRAME"}

\* worker.postMessage(req): nothing reaches a terminated worker; the worker
\* keeps at most MaxInFlight frames unanswered and overwrites the rest
PostMessage(ws, w, req) ==
    IF ~ws[w].alive THEN ws
    ELSE IF req.type = "PROCESS_FRAME" /\ Cardinality(FramesOf(ws[w])) >= MaxInFlight
         THEN ws
    ELSE [ws EXCEPT ![w].pending = @ \cup {req}]

\* The worker protocol: the messages the worker may answer a request with
Responses(req) ==
    CASE req.type = "INIT" -> {[type |-> "READY", timestamp |-> 0, detected |-> FALSE]}
      [] req.type = "CALIBRATE" ->
            {[type |-> ty, timestamp |-> 0, detected |-> FALSE] :
                ty \in {"CALIBRATION_COMPLETE", "CALIBRATION_FAILED"}}
      [] req.type = "PROCESS_FRAME" ->
            {[type |-> "FRAME_RESULT", timestamp |-> req.timestamp, detected |-> d] :
                d \in BOOLEAN}

\* switch (type) of worker.onmessage: the function each case calls
Dispatch_noFailedCase(type) ==
    CASE type = "READY" -> "startCalibration"
      [] type = "CALIBRATION_COMPLETE" -> "startVideoProcessing"
      [] type = "FRAME_RESULT" -> "pushDetection"
      [] OTHER -> "ignore"
Dispatch(type) ==
    CASE type = "READY" -> "startCalibration"
      [] type = "CALIBRATION_COMPLETE" -> "startVideoProcessing"
      [] type = "CALIBRATION_FAILED" -> "startVideoProcessing"
      [] type = "FRAME_RESULT" -> "pushDetection"
      [] OTHER -> "ignore"

\* Math.min(100, Math.round((metadata.mediaTime / video.duration) * 100))
RoundHalfUp(num, den) == (2 * num + den) \div (2 * den)
Min(a, b) == IF a < b THEN a ELSE b
ProgressAt(mediaTime) == Min(100, RoundHalfUp(100 * mediaTime, Duration))

\* History of the latest run: event f of run r is logged when r is that run
EmptyLog == [imageFailed |-> FALSE, calibrateSent |-> FALSE,
             processing |-> FALSE, videoFailed |-> FALSE]
Log(r, f) == IF r = abortControllerRef THEN [runLog EXCEPT ![f] = TRUE] ELSE runLog

OrchInit ==
    /\ status = "idle"
    /\ progress = 0
    /\ isProcessing = FALSE
    /\ detections = <<>>
    /\ abortControllerRef = NoRun
    /\ workerRef = NoRun
    /\ rawDetectionsRef = <<>>
    /\ aborted = [r \in Runs |-> FALSE]
    /\ workers = [r \in Runs |-> [alive |-> FALSE, pending |-> {}]]
    /\ imageLoading = {}
    /\ frameCount = [r \in Runs |-> 0]
    /\ video = [src |-> NoRun, readyState |-> "empty", paused |-> TRUE,
                ended |-> FALSE, mediaTime |-> 0, newFrame |-> FALSE,
                onloadeddata |-> NoRun, onerror |-> NoRun, onended |-> NoRun]
    /\ frameCallbacks = <<>>
    /\ firing = <<>>
    /\ mounted = TRUE
    /\ rawOrigin = <<>>
    /\ published = [run |-> NoRun, origins |-> {}]
    /\ discarded = {}
    /\ runLog = EmptyLog
    /\ last = [kind |-> "mount", run |-> NoRun]

Init ==
    /\ OrchInit
    /\ mPc = "off"
    /\ mIn = <<>>
    /\ mOut = <<>>
    /\ mRe = <<>>
    /\ mArg = <<>>
    /\ mPerm = <<>>
    /\ mPermOut = <<>>

\* processVideo(videoUrl, referenceImageUrl), up to worker.postMessage INIT
processVideo ==
    LET r == abortControllerRef + 1 IN
    /\ mounted
    /\ firing = <<>>
    /\ r <= MaxRuns
    /\ status' = SetState(status, "initializing")
    /\ progress' = SetState(progress, 0)
    /\ isProcessing' = SetState(isProcessing, TRUE)
    /\ detections' = SetState(detections, <<>>)
    /\ rawDetectionsRef' = <<>>
    /\ aborted' = Abort(aborted, abortControllerRef)
    /\ abortControllerRef' = r
    /\ workers' = PostMessage(
            [TerminateWorker(workers, workerRef) EXCEPT ![r] = [alive |-> TRUE, pending |-> {}]],
            r, Request("INIT", 0))
    /\ workerRef' = r
    /\ frameCount' = Forget(frameCount, abortControllerRef)
    /\ rawOrigin' = <<>>
    /\ published' = [run |-> NoRun, origins |-> {}]
    /\ discarded' = IF rawDetectionsRef # <<>> /\ status = "processing"
                    THEN discarded \cup {abortControllerRef} ELSE discarded
    /\ runLog' = EmptyLog
    /\ last' = [kind |-> "processVideo", run |-> r]
    /\ UNCHANGED <<imageLoading, video, frameCallbacks, firing, mounted, mergeVars>>

\* startCalibration, up to the await of the reference image
StartCalibration(r) ==
    IF aborted[r]
    THEN UNCHANGED <<status, imageLoading>>
    ELSE /\ status' = SetState(status, "calibrating")
         /\ imageLoading' = imageLoading \cup {r}

\* startVideoProcessing, up to the await of video.onloadeddata; assigning
\* video.src runs the media load algorithm, which pauses and resets playback
StartVideoProcessing(r) ==
    IF aborted[r]
    THEN UNCHANGED <<status, video, runLog>>
    ELSE /\ status' = SetState(status, "processing")
         /\ video' = [video EXCEPT !.src = r, !.readyState = "loading",
                                   !.paused = TRUE, !.ended = FALSE,
                                   !.mediaTime = 0, !.newFrame = FALSE,
                                   !.onloadeddata = r, !.onerror = r]
         /\ runLog' = Log(r, "processing")

\* case 'FRAME_RESULT': if (payload.detected) rawDetectionsRef.current.push(...)
PushDetection(r, payload) ==
    IF payload.detected
    THEN /\ rawDetectionsRef' = Append(rawDetectionsRef, payload.timestamp)
         /\ rawOrigin' = Append(rawOrigin, r)
    ELSE UNCHANGED <<rawDetectionsRef, rawOrigin>>

\* worker.onmessage of run r: the worker answers request req with msg
OnMessage(r) ==
    \E req \in workers[r].pending : \E msg \in Responses(req) :
      LET h == Dispatch(msg.type) IN
        /\ firing = <<>>
        /\ workers[r].alive
        /\ msg.detected => Len(rawDetectionsRef) < MaxRaw
        /\ workers' = [workers EXCEPT ![r].pending = @ \ {req}]
        /\ last' = [kind |-> msg.type, run |-> r]
        /\ IF h = "startCalibration"
           THEN StartCalibration(r)
           ELSE UNCHANGED imageLoading
        /\ IF h = "startVideoProcessing"
           THEN StartVideoProcessing(r)
           ELSE UNCHANGED <<video, runLog>>
        /\ IF h = "pushDetection"
           THEN PushDetection(r, msg)
           ELSE UNCHANGED <<rawDetectionsRef, rawOrigin>>
        /\ h \in {"pushDetection", "ignore"} => UNCHANGED status
        /\ UNCHANGED <<progress, isProcessing, detections, abortControllerRef,
                       workerRef, aborted, frameCount, frameCallbacks, firing,
                       mounted, published, discarded, mergeVars>>

\* startCalibration after referenceImage.onload: draw, getImageData, CALIBRATE
ImageLoaded(r) ==
    /\ firing = <<>>
    /\ r \in imageLoading
    /\ imageLoading' = imageLoading \ {r}
    /\ workers' = PostMessage(workers, r, Request("CALIBRATE", 0))
    /\ runLog' = IF workers[r].alive THEN Log(r, "calibrateSent") ELSE runLog
    /\ last' = [kind |-> "imageLoaded", run |-> r]
    /\ UNCHANGED <<status, progress, isProcessing, detections, abortControllerRef,
                   workerRef, rawDetectionsRef, aborted, frameCount, video,
                   frameCallbacks, firing, mounted, rawOrigin, published,
                   discarded, mergeVars>>

\* startCalibration after referenceImage.onerror: the catch block
ImageFailed_swallowed(r) ==
    /\ firing = <<>>
    /\ r \in imageLoading
    /\ imageLoading' = imageLoading \ {r}
    /\ runLog' = Log(r, "imageFailed")
    /\ last' = [kind |-> "imageFailed", run |-> r]
    /\ UNCHANGED <<status, progress, isProcessing, detections, abortControllerRef,
                   workerRef, rawDetectionsRef, aborted, workers, frameCount,
                   video, frameCallbacks, firing, mounted, rawOrigin, published,
                   discarded, mergeVars>>
ImageFailed(r) ==
    /\ firing = <<>>
    /\ r \in imageLoading
    /\ imageLoading' = imageLoading \ {r}
    /\ status' = SetState(status, "error")
    /\ runLog' = Log(r, "imageFailed")
    /\ last' = [kind |-> "imageFailed", run |-> r]
    /\ UNCHANGED <<progress, isProcessing, detections, abortControllerRef,
                   workerRef, rawDetectionsRef, aborted, workers, frameCount,
                   video, frameCallbacks, firing, mounted, rawOrigin, published,
                   discarded, mergeVars>>

\* video.onloadeddata resolves the load promise of the run that installed it:
\* install onended/onerror, let frameCount = 0, requestVideoFrameCallback(loop),
\* video.play()
VideoLoaded ==
    LET r == video.onloadeddata IN
    /\ firing = <<>>
    /\ video.readyState = "loading"
    /\ video' = [video EXCEPT !.readyState = "loaded", !.paused = FALSE,
                              !.onended = r, !.onerror = r]
    /\ frameCount' = [frameCount EXCEPT ![r] = 0]
    /\ frameCallbacks' = Append(frameCallbacks, r)
    /\ last' = [kind |-> "videoLoaded", run |-> r]
    /\ UNCHANGED <<status, progress, isProcessing, detections, abortControllerRef,
                   workerRef, rawDetectionsRef, aborted, workers, imageLoading,
                   firing, mounted, rawOrigin, published, discarded, runLog,
                   mergeVars>>

\* video.onerror rejects the promise startVideoProcessing awaits (load or
\* playback); nothing catches the rejection
VideoError ==
    LET r == video.onerror IN
    /\ firing = <<>>
    /\ \/ video.readyState = "loading"
       \/ video.readyState = "loaded" /\ ~video.paused /\ ~video.ended
    /\ video' = [video EXCEPT !.readyState = "error"]
    /\ runLog' = Log(r, "videoFailed")
    /\ last' = [kind |-> "videoError", run |-> r]
    /\ UNCHANGED <<status, progress, isProcessing, detections, abortControllerRef,
                   workerRef, rawDetectionsRef, aborted, workers, imageLoading,
                   frameCount, frameCallbacks, firing, mounted, rawOrigin,
                   published, discarded, mergeVars>>

\* video.onended resolves the processing promise; startVideoProcessing resumes
\* at if (!signal.aborted) { processDetections ... worker.terminate() }
VideoEnded ==
    LET r == video.onended IN
    /\ firing = <<>>
    /\ video.readyState = "loaded" /\ ~video.paused /\ ~video.ended
    /\ video' = [video EXCEPT !.ended = TRUE]
    /\ last' = [kind |-> "videoEnded", run |-> r]
    /\ IF aborted[r]
       THEN UNCHANGED <<status, progress, isProcessing, detections, workers,
                        workerRef, published>>
       ELSE /\ status' = SetState(status, "completed")
            /\ progress' = SetState(progress, 100)
            /\ isProcessing' = SetState(isProcessing, FALSE)
            /\ detections' = SetState(detections, processDetections(rawDetectionsRef))
            /\ published' = [run |-> r, origins |-> {rawOrigin[i] : i \in DOMAIN rawOrigin}]
            /\ workers' = TerminateWorker(workers, r)
            /\ workerRef' = NoRun
    /\ UNCHANGED <<abortControllerRef, rawDetectionsRef, aborted, imageLoading,
                   frameCount, frameCallbacks, firing, mounted, rawOrigin,
                   discarded, runLog, mergeVars>>

\* The media pipeline presents the frame at media time t; the registered
\* frame callbacks run at the next rendering opportunity
FramePresented(t) ==
    /\ firing = <<>>
    /\ video.readyState = "loaded" /\ ~video.paused /\ ~video.ended
    /\ t >= video.mediaTime
    /\ \A i \in DOMAIN frameCallbacks : frameCount[frameCallbacks[i]] < MaxFrames
    /\ video' = [video EXCEPT !.mediaTime = t, !.newFrame = TRUE]
    /\ last' = [kind |-> "framePresented", run |-> NoRun]
    /\ UNCHANGED <<status, progress, isProcessing, detections, abortControllerRef,
                   workerRef, rawDetectionsRef, aborted, workers, imageLoading,
                   frameCount, frameCallbacks, firing, mounted, rawOrigin,
                   published, discarded, runLog, mergeVars>>

\* One callback of the rendering step that runs the video frame callbacks:
\* loop(now, metadata) of run r. The callbacks registered when the step began
\* run in order (firing); those requested meanwhile wait for the next frame.
Loop(r) ==
    LET starting == firing = <<>>
        queue == IF starting THEN frameCallbacks ELSE firing
        requested == IF starting THEN <<>> ELSE frameCallbacks
    IN
    /\ starting => video.newFrame
    /\ queue # <<>>
    /\ r = Head(queue)
    /\ firing' = Tail(queue)
    /\ last' = [kind |-> "loop", run |-> r]
    /\ IF aborted[r]
       THEN /\ video' = [video EXCEPT !.paused = TRUE, !.newFrame = FALSE]
            /\ frameCallbacks' = requested
            /\ UNCHANGED <<workers, frameCount, progress>>
       ELSE /\ workers' = PostMessage(workers, r, Request("PROCESS_FRAME", video.mediaTime))
            /\ frameCount' = [frameCount EXCEPT ![r] = @ + 1]
            /\ progress' = IF (frameCount[r] + 1) % PROGRESS_EVERY = 0
                           THEN SetState(progress, ProgressAt(video.mediaTime))
                           ELSE progress
            /\ frameCallbacks' = IF ~video.paused /\ ~video.ended
                                 THEN Append(requested, r)
                                 ELSE requested
            /\ video' = [video EXCEPT !.newFrame = FALSE]
    /\ UNCHANGED <<status, isProcessing, detections, abortControllerRef, workerRef,
                   rawDetectionsRef, aborted, imageLoading, mounted, rawOrigin,
                   published, discarded, runLog, mergeVars>>

\* loop(now, metadata) of run r when drawImage, getImageData or postMessage
\* throws: control jumps to the catch block, which logs; the statements after
\* the throw (frameCount++, setState, requestVideoFrameCallback) do not run
LoopThrows(r) ==
    LET starting == firing = <<>>
        queue == IF starting THEN frameCallbacks ELSE firing
        requested == IF starting THEN <<>> ELSE frameCallbacks
    IN
    /\ starting => video.newFrame
    /\ queue # <<>>
    /\ r = Head(queue)
    /\ ~aborted[r]
    /\ firing' = Tail(queue)
    /\ frameCallbacks' = requested
    /\ video' = [video EXCEPT !.newFrame = FALSE]
    /\ last' = [kind |-> "loopThrows", run |-> r]
    /\ UNCHANGED <<status, progress, isProcessing, detections, abortControllerRef,
                   workerRef, rawDetectionsRef, aborted, workers, imageLoading,
                   frameCount, mounted, rawOrigin, published, discarded, runLog,
                   mergeVars>>

\* The cleanup of useEffect, run when the component unmounts
Teardown ==
    /\ mounted
    /\ firing = <<>>
    /\ mounted' = FALSE
    /\ video' = [video EXCEPT !.src = NoRun, !.readyState = "empty", !.paused = TRUE,
                              !.ended = FALSE, !.mediaTime = 0, !.newFrame = FALSE]
    /\ workers' = TerminateWorker(workers, workerRef)
    /\ aborted' = Abort(aborted, abortControllerRef)
    /\ frameCount' = Forget(frameCount, abortControllerRef)
    /\ last' = [kind |-> "teardown", run |-> abortControllerRef]
    /\ UNCHANGED <<status, progress, isProcessing, detections, abortControllerRef,
                   workerRef, rawDetectionsRef, imageLoading, frameCallbacks,
                   firing, rawOrigin, published, discarded, runLog, mergeVars>>

Next ==
    \/ processVideo
    \/ \E r \in Runs : OnMessage(r)
    \/ \E r \in Runs : ImageLoaded(r)
    \/ \E r \in Runs : ImageFailed(r)
    \/ VideoLoaded
    \/ VideoError
    \/ VideoEnded
    \/ \E t \in MediaTimes : FramePresented(t)
    \/ \E r \in Runs : Loop(r)
    \/ \E r \in Runs : LoopThrows(r)
    \/ Teardown

Spec == Init /\ [][Next]_vars

\* What the platform guarantees of a healthy environment: a live worker
\* answers every request, the reference image and the video finish loading,
\* the rendering step runs the frame callbacks of a presented frame, and a
\* video that keeps playing reaches its end.
Fairness ==
    /\ \A r \in Runs : WF_vars(OnMessage(r))
    /\ \A r \in Runs : WF_vars(ImageLoaded(r))
    /\ WF_vars(VideoLoaded)
    /\ \A r \in Runs : WF_vars(Loop(r))
    /\ WF_vars(VideoEnded)

FairSpec == Init /\ [][Next]_vars /\ Fairness

TypeOK ==
    /\ status \in {"idle", "initializing", "calibrating", "processing", "completed", "error"}
    /\ progress \in 0..100
    /\ isProcessing \in BOOLEAN
    /\ abortControllerRef \in 0..MaxRuns
    /\ workerRef \in 0..MaxRuns
    /\ Len(rawDetectionsRef) <= MaxRaw
    /\ Len(rawOrigin) = Len(rawDetectionsRef)
    /\ \A r \in Runs : frameCount[r] \in 0..MaxFrames
    /\ imageLoading \subseteq Runs

\* ------------------------------------------- the merger applied on its own
SeqsUpTo(S, n) == UNION {[1..k -> S] : k \in 0..n}

\* the start and end points of the ranges, in order
RECURSIVE Endpoints(_)
Endpoints(ranges) ==
    IF ranges = <<>> THEN <<>>
    ELSE <<Head(ranges).start, Head(ranges).end>> \o Endpoints(Tail(ranges))

MergeInit ==
    /\ OrchInit
    /\ mPc = "start"
    /\ mIn \in SeqsUpTo(Times, MaxLen)
    /\ mOut = <<>>
    /\ mRe = <<>>
    /\ mArg = <<>>
    /\ mPerm = <<>>
    /\ mPermOut = <<>>

Merge ==
    /\ mPc = "start"
    /\ mOut' = processDetections(mIn)
    /\ mArg' = ArgumentAfter(mIn)
    /\ mPc' = "merged"
    /\ UNCHANGED <<mIn, mRe, mPerm, mPermOut, orchVars>>

Remerge ==
    /\ mPc = "merged"
    /\ mRe' = processDetections(Endpoints(mOut))
    /\ mPc' = "remerged"
    /\ UNCHANGED <<mIn, mOut, mArg, mPerm, mPermOut, orchVars>>

\* the sequences that hold the elements of s in another (or the same) order
Reorderings(s) ==
    {[i \in DOMAIN s |-> s[f[i]]] :
        f \in {g \in [DOMAIN s -> DOMAIN s] : \A i, j \in DOMAIN s : g[i] = g[j] => i = j}}

\* processDetections called again with the same timestamps in another order
Permute ==
    /\ mPc = "merged"
    /\ Len(mIn) <= MaxPermLen
    /\ \E P \in Reorderings(mIn) :
          /\ mPerm' = P
          /\ mPermOut' = processDetections(P)
          /\ mArg' = ArgumentAfter(P)
    /\ mPc' = "permuted"
    /\ UNCHANGED <<mIn, mOut, mRe, orchVars>>

MergeNext == Merge \/ Remerge \/ Permute

MergeSpec == MergeInit /\ [][MergeNext]_vars

\* ------------------------------------------------------------------ claims
Merged == mPc \in {"merged", "remerged"}
Covers(rg, t) == rg.start <= t /\ t <= rg.end
Values == {mIn[k] : k \in DOMAIN mIn}
\* pairs a < b of input values adjacent in sorted order
Adjacent == {p \in Values \X Values :
                p[1] < p[2] /\ ~\E c \in Values : p[1] < c /\ c < p[2]}
SameRange(a, b) == \E i \in DOMAIN mOut : Covers(mOut[i], a) /\ Covers(mOut[i], b)
Boundary(a, b) ==
    \E i \in DOMAIN mOut : i < Len(mOut) /\ mOut[i].end = a /\ mOut[i + 1].start = b

\* C1: the detections a run publishes on completion are written by the latest
\* run and built only from FRAME_RESULTs of that run's own worker; no result
\* and no completion of a superseded run contributes to them.
C1_DetectionsOnlyFromNewestRun ==
    published.run # NoRun =>
        /\ published.run = abortControllerRef
        /\ published.origins \subseteq {published.run}

\* run 2 completed with detections after run 1 was superseded while its
\* positive results were in the buffer
C1_Witness ==
    /\ published.run = 2
    /\ 1 \in discarded
    /\ detections # <<>>
    /\ status = "completed"

\* C2: a continuation of a run whose token is aborted changes none of status,
\* progress, isProcessing, detections and the raw-detection buffer.
ContinuationKinds ==
    {"READY", "CALIBRATION_COMPLETE", "CALIBRATION_FAILED", "FRAME_RESULT",
     "imageLoaded", "imageFailed", "videoLoaded", "videoError", "videoEnded", "loop"}
C2_StaleRunsChangeNothing ==
    [][(/\ last'.kind \in ContinuationKinds
        /\ last'.run # NoRun
        /\ aborted[last'.run])
       => UNCHANGED <<status, progress, isProcessing, detections, rawDetectionsRef>>]_vars

\* C3: in a run that is not aborted, CALIBRATION_FAILED is handled like
\* CALIBRATION_COMPLETE: the status becomes 'processing' (not 'error') and the
\* video starts loading for that run.
C3_CalibrationFailedProceeds ==
    (last.kind \in {"CALIBRATION_FAILED", "CALIBRATION_COMPLETE"} /\ ~aborted[last.run]) =>
        /\ status = "processing"
        /\ video.src = last.run
        /\ video.readyState = "loading"

C3_Witness ==
    /\ last.kind = "CALIBRATION_FAILED"
    /\ ~aborted[last.run]
    /\ status = "processing"

\* C4: progress never decreases except at the reset of a new start, and is 100
\* whenever the status is 'completed'.
C4_ProgressMonotoneTo100 ==
    [][/\ last'.kind # "processVideo" => progress' >= progress
       /\ status' = "completed" => progress' = 100]_vars

\* C5: once the reference image has failed to load in the latest, unaborted
\* run, the status is 'error', detections is empty, no CALIBRATE was sent and
\* the run has not reached 'processing' (hence not 'completed').
C5_ImageFailureIsFinal ==
    (runLog.imageFailed /\ ~aborted[abortControllerRef]) =>
        /\ status = "error"
        /\ detections = <<>>
        /\ ~runLog.calibrateSent
        /\ Request("CALIBRATE", 0) \notin workers[abortControllerRef].pending
        /\ ~runLog.processing
        /\ published.run = NoRun

C5_Witness ==
    /\ runLog.imageFailed
    /\ ~aborted[abortControllerRef]
    /\ status = "error"
    /\ workers[abortControllerRef].alive

\* C6: once the video has failed to load or play in the latest, unaborted run,
\* the status is 'error'.
C6_VideoFailureSurfaces ==
    (runLog.videoFailed /\ ~aborted[abortControllerRef]) => status = "error"

\* C7: for a non-empty input the ranges are ordered by start, pairwise
\* non-overlapping, each has start <= end, and every input timestamp lies in
\* exactly one range.
C7_RangesPartitionInput ==
    (Merged /\ mIn # <<>>) =>
        /\ \A i, j \in DOMAIN mOut :
              i < j => mOut[i].start < mOut[j].start /\ mOut[i].end < mOut[j].start
        /\ \A i \in DOMAIN mOut : mOut[i].start <= mOut[i].end
        /\ \A k \in DOMAIN mIn :
              Cardinality({i \in DOMAIN mOut : Covers(mOut[i], mIn[k])}) = 1

\* an unsorted input with a duplicate, merged into several ranges
C7_Witness ==
    /\ mPc = "merged"
    /\ Len(mOut) >= 2
    /\ \E i, j \in DOMAIN mIn : i < j /\ mIn[i] > mIn[j]
    /\ \E i, j \in DOMAIN mIn : i < j /\ mIn[i] = mIn[j]

\* C8: input values a < b adjacent in sorted order share a range when
\* b - a <= tolerance, and otherwise a ends one range and b starts the next;
\* equal values share a range; the number of ranges is one plus the number of
\* adjacent gaps above the tolerance.
C8_ToleranceDecidesBoundaries ==
    Merged =>
        /\ \A p \in Adjacent :
              IF p[2] - p[1] <= TOLERANCE
              THEN SameRange(p[1], p[2]) /\ ~Boundary(p[1], p[2])
              ELSE Boundary(p[1], p[2]) /\ ~SameRange(p[1], p[2])
        /\ \A a \in Values : SameRange(a, a)
        /\ mIn # <<>> =>
              Len(mOut) = 1 + Cardinality({p \in Adjacent : p[2] - p[1] > TOLERANCE})

\* a gap of exactly the tolerance and a larger one in the same input
C8_Witness ==
    /\ mPc = "merged"
    /\ \E p \in Adjacent : p[2] - p[1] = TOLERANCE
    /\ \E p \in Adjacent : p[2] - p[1] > TOLERANCE

\* C9 as stated: re-merging the start and end points of the ranges returns the
\* same ranges.
C9_RemergeIsIdempotent == mPc = "remerged" => mRe = mOut

\* C9 amended: re-merging the start and end points returns the ranges with
\* every range wider than the tolerance replaced by two zero-width ranges at
\* its start and its end; it returns the same ranges when none is wider.
RECURSIVE SplitWide(_)
SplitWide(ranges) ==
    IF ranges = <<>> THEN <<>>
    ELSE LET rg == Head(ranges) IN
         (IF rg.end - rg.start > TOLERANCE
          THEN <<[start |-> rg.start, end |-> rg.start, confidence |-> 1],
                 [start |-> rg.end, end |-> rg.end, confidence |-> 1]>>
          ELSE <<rg>>) \o SplitWide(Tail(ranges))
C9_RemergeSplitsWideRanges ==
    mPc = "remerged" =>
        /\ mRe = SplitWide(mOut)
        /\ (\A i \in DOMAIN mOut : mOut[i].end - mOut[i].start <= TOLERANCE) => mRe = mOut

\* a range of non-zero width that survives re-merging beside one that is split
C9_Witness ==
    /\ mPc = "remerged"
    /\ \E i \in DOMAIN mOut : mOut[i].end - mOut[i].start > TOLERANCE
    /\ \E i \in DOMAIN mOut :
          /\ mOut[i].end > mOut[i].start
          /\ mOut[i].end - mOut[i].start <= TOLERANCE
          /\ \E j \in DOMAIN mRe : mRe[j] = mOut[i]

\* C10: an empty input gives no range; a single timestamp t gives exactly one
\* range with start = end = t and confidence 1.0.
C10_EmptyAndSingle ==
    Merged =>
        /\ mIn = <<>> => mOut = <<>>
        /\ Len(mIn) = 1 =>
              mOut = <<[start |-> mIn[1], end |-> mIn[1], confidence |-> 1]>>

C10_Witness ==
    /\ mPc = "merged"
    /\ Len(mIn) = 1
    /\ Len(mOut) = 1

\* C11: after drawImage, getImageData or postMessage threw in the frame
\* callback of a run that is not cancelled, while playback continues (the
\* video is neither paused nor ended), the run's loop is still scheduled as a
\* frame callback, so that later frames are submitted.
Scheduled(r) ==
    \/ \E i \in DOMAIN frameCallbacks : frameCallbacks[i] = r
    \/ \E i \in DOMAIN firing : firing[i] = r
C11_FrameFailureSkipsOneFrame ==
    (/\ last.kind = "loopThrows"
     /\ ~aborted[last.run]
     /\ ~video.paused /\ ~video.ended) => Scheduled(last.run)

\* C12: the worker of a run is terminated once the run is superseded (its
\* token is aborted), and whenever the status is 'completed' or 'error' the
\* worker of the latest run is no longer alive.
WorkerGoneWhenSuperseded == \A r \in Runs : aborted[r] => ~workers[r].alive
WorkerGoneWhenCompleted ==
    (status = "completed" /\ abortControllerRef # NoRun) =>
        ~workers[abortControllerRef].alive
WorkerGoneWhenFailed ==
    (status = "error" /\ abortControllerRef # NoRun) =>
        ~workers[abortControllerRef].alive
C12_WorkerTerminatedAtEveryEnd ==
    /\ WorkerGoneWhenSuperseded
    /\ WorkerGoneWhenCompleted
    /\ WorkerGoneWhenFailed

\* C13: once the token of a run is aborted (by a new processVideo or by the
\* unmount), no step submits a further PROCESS_FRAME of that run, no step
\* schedules a further frame callback of that run, its worker is not alive,
\* and no message of its worker is appended to the raw-detection buffer.
CallbacksOf(fc, fi, r) ==
    Cardinality({i \in DOMAIN fc : fc[i] = r}) + Cardinality({i \in DOMAIN fi : fi[i] = r})
NoFrameSubmittedAfterCancel ==
    [][\A r \in Runs : aborted[r] => FramesOf(workers'[r]) \subseteq FramesOf(workers[r])]_vars
NoCallbackScheduledAfterCancel ==
    [][\A r \in Runs : aborted[r] =>
          CallbacksOf(frameCallbacks', firing', r) <= CallbacksOf(frameCallbacks, firing, r)]_vars
NoResultAcceptedAfterCancel ==
    [][\A r \in Runs : (aborted[r] /\ last'.run = r /\ last'.kind = "FRAME_RESULT") =>
          rawDetectionsRef' = rawDetectionsRef]_vars
C13_CancelledRunStops ==
    [][\A r \in Runs : aborted[r] =>
          /\ FramesOf(workers'[r]) \subseteq FramesOf(workers[r])
          /\ CallbacksOf(frameCallbacks', firing', r) <= CallbacksOf(frameCallbacks, firing, r)
          /\ ~workers[r].alive
          /\ (last'.run = r /\ last'.kind = "FRAME_RESULT") =>
                rawDetectionsRef' = rawDetectionsRef]_vars

\* C14: when the playback of the current run has ended, the status is
\* 'completed' and detections is processDetections of the raw buffer, which
\* holds the positive FRAME_RESULT timestamps of that run's worker only; and
\* detections is empty in every state whose status is not 'completed'.
CompletionMergesRawOfTheRun ==
    (last.kind = "videoEnded" /\ ~aborted[last.run]) =>
        /\ status = "completed"
        /\ detections = processDetections(rawDetectionsRef)
        /\ \A i \in DOMAIN rawOrigin : rawOrigin[i] = last.run
DetectionsOnlyWhenCompleted == status # "completed" => detections = <<>>
C14_DetectionsAreMergedRawOfTheRun ==
    /\ CompletionMergesRawOfTheRun
    /\ DetectionsOnlyWhenCompleted

\* C15: once the status is 'error' or 'completed', only a processVideo call
\* changes it.
C15_ErrorAndCompletedAreTerminal ==
    [][(status \in {"error", "completed"} /\ status' # status) =>
          last'.kind = "processVideo"]_vars

\* C16: every change of status is one of the lifecycle's: to 'initializing' by
\* a processVideo call, 'initializing' to 'calibrating' on READY, 'calibrating'
\* to 'processing' on CALIBRATION_COMPLETE or CALIBRATION_FAILED, 'processing'
\* to 'completed' on the end of playback, and to 'error' on an image-load or
\* playback failure of the run that is current.
LifecycleStep(from, to, event) ==
    \/ to = "initializing" /\ event.kind = "processVideo"
    \/ from = "initializing" /\ to = "calibrating" /\ event.kind = "READY"
    \/ /\ from = "calibrating" /\ to = "processing"
       /\ event.kind \in {"CALIBRATION_COMPLETE", "CALIBRATION_FAILED"}
    \/ from = "processing" /\ to = "completed" /\ event.kind = "videoEnded"
    \/ /\ to = "error"
       /\ event.kind \in {"imageFailed", "videoError"}
       /\ event.run = abortControllerRef
C16_StatusFollowsLifecycle ==
    [][status' # status => LifecycleStep(status, status', last')]_vars

\* C17: at most one token that was created is un-aborted, and it is the one
\* abortControllerRef holds; at most one worker is alive, and it is the one
\* workerRef holds, spawned by the latest run. In particular, right after a
\* processVideo call every earlier token is aborted and every earlier worker
\* is terminated.
ActiveTokens == {r \in Runs : r <= abortControllerRef /\ ~aborted[r]}
LiveWorkers == {r \in Runs : workers[r].alive}
C17_OneTokenOneWorker ==
    /\ Cardinality(ActiveTokens) <= 1
    /\ Cardinality(LiveWorkers) <= 1
    /\ ActiveTokens \subseteq {abortControllerRef}
    /\ LiveWorkers \subseteq {workerRef} \cap {abortControllerRef}

\* run 2 has just superseded run 1 while run 1 was processing with its worker
C17_Witness ==
    /\ last = [kind |-> "processVideo", run |-> 2]
    /\ 1 \in discarded
    /\ aborted[1] /\ ~workers[1].alive
    /\ ~aborted[2] /\ workers[2].alive

\* C18: under the fairness of a healthy environment, a run that stays current
\* for ever (never superseded, never torn down) and whose image and video do
\* not fail eventually has the status 'completed', whatever earlier runs left
\* behind on the shared video element.
Healthy(r) ==
    /\ abortControllerRef = r
    /\ ~aborted[r]
    /\ ~runLog.imageFailed
    /\ ~runLog.videoFailed
C18_CurrentRunCompletes ==
    \A r \in Runs : <>[]Healthy(r) => <>(status = "completed" /\ abortControllerRef = r)

\* C19: isProcessing is true exactly when the status is 'initializing',
\* 'calibrating' or 'processing'.
C19_IsProcessingMatchesStatus ==
    isProcessing <=> status \in {"initializing", "calibrating", "processing"}

\* C20: processDetections gives the same ranges for every reordering of its
\* input, and after each call the caller's array holds the same elements in
\* the same order as before.
C20_OrderIndependentAndPure ==
    /\ Merged => mArg = mIn
    /\ mPc = "permuted" =>
          /\ mPermOut = mOut
          /\ mArg = mPerm

\* an unsorted input and a different, also unsorted, reordering of it, merged
\* into several ranges
C20_Witness ==
    /\ mPc = "permuted"
    /\ mPerm # mIn
    /\ mIn # SortAscending(mIn)
    /\ mPerm # SortAscending(mPerm)
    /\ Len(mOut) >= 2

====
